---- MODULE Spec2Model ----
(***************************************************************************)
(* Model of the adev-lru cache: a hash map from key to node plus a doubly  *)
(* linked recency list (head = most recently used, tail = least recently   *)
(* used), per-entry expiry timestamps and hit/miss/eviction counters.      *)
(*                                                                         *)
(* The repository holds two versions of the class: src/src/index.ts (the   *)
(* one the test file imports) and src/unnamed/part_000 (the later one,     *)
(* with getOption).  put, prepend, pop, evict and clearMetrics are the     *)
(* same text in both; get and clear differ.  The variable impl says which  *)
(* file the running instance was built from.                               *)
(***************************************************************************)
EXTENDS Integers, Sequences, FiniteSets, TLC

(* ------------------------------ bounds -------------------------------- *)
MaxCap == 2
MaxTtl == 1
MaxTime == 1
MaxCount == 1
\* the largest counter value the rates are computed from
MaxRateCount == 4

\* keys are strings, values are opaque: three keys and two values
Keys == {"a", "b", "c"}
Values == {"v1", "v2"}
Ttls == 0..MaxTtl
\* capacity arguments handed to getInstance: the constructor takes any number
CapArgs == {-1, 0} \cup (1..MaxCap)
Impls == {"index.ts", "part_000"}

\* `undefined` as a node reference: an unset head, tail, prev or next
NULL == 0

\* `undefined` as a result (absent), and the key of a call that takes none
Undefined == "undefined"

VARIABLES
  impl,           \* which source file the class was loaded from
  instance,       \* LRUCache.instance is set
  capacity,       \* this.capacity
  hash,           \* this.hash: key -> node (a function on the indexed keys)
  heap,           \* the LinkedNode objects: node id -> [key, value, ttl, prev, next]
  head,           \* this.head
  tail,           \* this.tail
  hitCount,       \* this.hitCount
  missCount,      \* this.missCount
  evictionCount,  \* this.evictionCount
  now,            \* Date.now()
  last,           \* the last call: [op, key, val, had]; val: the value put, or get's
                  \* result; had: the call found its key indexed (clear: any key
                  \* indexed; clearMetrics: any counter above zero)
  recency,        \* history: the indexed keys, latest put or hit first
  stored,         \* history: key -> [value, expiresAt] of its latest put, while kept
  getCalls,       \* history: get/getOption calls since the counters were last zeroed
  logged          \* the three rates of the last logMetrics(), as console.log got them

vars == <<impl, instance, capacity, hash, heap, head, tail, hitCount, missCount,
          evictionCount, now, last, recency, stored, getCalls, logged>>

(* ------------------------- the list structure ------------------------- *)

\* the four fields the list primitives read and write
Cur == [hash |-> hash, heap |-> heap, head |-> head, tail |-> tail]

Without(f, k) == [x \in (DOMAIN f) \ {k} |-> f[x]]

With(f, k, v) == [x \in (DOMAIN f) \cup {k} |-> IF x = k THEN v ELSE f[x]]

\* prepend() linking the new node behind the tail
prepend_atTail(s, key, value, ttl) ==
  LET n == Len(s.heap) + 1
      node == [key |-> key, value |-> value, ttl |-> ttl, prev |-> NULL, next |-> NULL]
      h0 == Append(s.heap, node)
      hs == With(s.hash, key, n)
  IN IF s.tail = NULL
       THEN [hash |-> hs, heap |-> h0, head |-> n, tail |-> n]
       ELSE [hash |-> hs,
             heap |-> [h0 EXCEPT ![n].prev = s.tail, ![s.tail].next = n],
             head |-> s.head,
             tail |-> n]

\* private prepend(key, value, ttl): a new node, registered in the map and
\* linked in front of head
prepend(s, key, value, ttl) ==
  LET n == Len(s.heap) + 1
      node == [key |-> key, value |-> value, ttl |-> ttl, prev |-> NULL, next |-> NULL]
      h0 == Append(s.heap, node)
      hs == With(s.hash, key, n)
  IN IF s.head = NULL
       THEN [hash |-> hs, heap |-> h0, head |-> n, tail |-> n]
       ELSE [hash |-> hs,
             heap |-> [h0 EXCEPT ![n].next = s.head, ![s.head].prev = n],
             head |-> n,
             tail |-> s.tail]

\* pop() taking the wrong end of the list: the head
pop_head(s) ==
  LET node == s.head IN
  IF node = NULL THEN [s |-> s, node |-> NULL]
  ELSE LET x == s.heap[s.head].next
           s1 == IF x # NULL
                   THEN [s EXCEPT !.heap = [s.heap EXCEPT ![x].prev = NULL], !.head = x]
                   ELSE [s EXCEPT !.head = NULL, !.tail = NULL]
       IN [s |-> [s1 EXCEPT !.heap = [s1.heap EXCEPT ![node].next = NULL]], node |-> node]

\* pop() that leaves the new tail pointing at the node removed
pop_keepsNext(s) ==
  LET node == s.tail IN
  IF node = NULL THEN [s |-> s, node |-> NULL]
  ELSE LET p == s.heap[s.tail].prev
           s1 == IF p # NULL
                   THEN [s EXCEPT !.tail = p]
                   ELSE [s EXCEPT !.head = NULL, !.tail = NULL]
       IN [s |-> [s1 EXCEPT !.heap = [s1.heap EXCEPT ![node].prev = NULL]], node |-> node]

\* private pop(): unlink the tail; gives the state and the node removed (NULL: none)
pop(s) ==
  LET node == s.tail IN
  IF node = NULL THEN [s |-> s, node |-> NULL]
  ELSE LET p == s.heap[s.tail].prev
           s1 == IF p # NULL
                   THEN [s EXCEPT !.heap = [s.heap EXCEPT ![p].next = NULL], !.tail = p]
                   ELSE [s EXCEPT !.head = NULL, !.tail = NULL]
       IN [s |-> [s1 EXCEPT !.heap = [s1.heap EXCEPT ![node].prev = NULL]], node |-> node]

\* evict(node) that unlinks the node and leaves its key in the map
evict_keepsKey(s, n) ==
  LET h1 == IF s.heap[n].prev # NULL
              THEN [s.heap EXCEPT ![s.heap[n].prev].next = s.heap[n].next]
              ELSE s.heap
      h2 == IF h1[n].next # NULL
              THEN [h1 EXCEPT ![h1[n].next].prev = h1[n].prev]
              ELSE h1
      hd == IF n = s.head THEN h2[n].next ELSE s.head
      tl == IF n = s.tail THEN h2[n].prev ELSE s.tail
      h3 == [h2 EXCEPT ![n].next = NULL, ![n].prev = NULL]
  IN [hash |-> s.hash, heap |-> h3, head |-> hd, tail |-> tl]

\* private evict(node): unlink node from wherever it is and delete its key
evict(s, n) ==
  LET h1 == IF s.heap[n].prev # NULL
              THEN [s.heap EXCEPT ![s.heap[n].prev].next = s.heap[n].next]
              ELSE s.heap
      h2 == IF h1[n].next # NULL
              THEN [h1 EXCEPT ![h1[n].next].prev = h1[n].prev]
              ELSE h1
      hd == IF n = s.head THEN h2[n].next ELSE s.head
      tl == IF n = s.tail THEN h2[n].prev ELSE s.tail
      h3 == [h2 EXCEPT ![n].next = NULL, ![n].prev = NULL]
  IN [hash |-> Without(s.hash, h3[n].key), heap |-> h3, head |-> hd, tail |-> tl]

\* the capacity test off by one
overCapacity_offByOne(s, cap) == Cardinality(DOMAIN s.hash) > cap + 1

\* this.hash.size > this.capacity
overCapacity(s, cap) == Cardinality(DOMAIN s.hash) > cap

\* put() that does not unlink the node its key already has
put_keepsOldNode(s, cap, key, value, ttl, t) ==
  LET s2 == prepend(s, key, value, t + ttl)
      s3 == [s2 EXCEPT !.hash = With(s2.hash, key, Len(s2.heap))]
  IN IF overCapacity(s3, cap)
       THEN LET r == pop(s3) IN
            IF r.node # NULL
              THEN [s |-> [r.s EXCEPT !.hash = Without(r.s.hash, r.s.heap[r.node].key)],
                    evictions |-> 1]
              ELSE [s |-> r.s, evictions |-> 0]
       ELSE [s |-> s3, evictions |-> 0]

\* put() counting the replacement of its own key as an eviction
put_countsReplacement(s, cap, key, value, ttl, t) ==
  LET s1 == IF key \in DOMAIN s.hash THEN evict(s, s.hash[key]) ELSE s
      s2 == prepend(s1, key, value, t + ttl)
      s3 == [s2 EXCEPT !.hash = With(s2.hash, key, Len(s2.heap))]
      replaced == IF key \in DOMAIN s.hash THEN 1 ELSE 0
  IN IF overCapacity(s3, cap)
       THEN LET r == pop(s3) IN
            IF r.node # NULL
              THEN [s |-> [r.s EXCEPT !.hash = Without(r.s.hash, r.s.heap[r.node].key)],
                    evictions |-> replaced + 1]
              ELSE [s |-> r.s, evictions |-> replaced]
       ELSE [s |-> s3, evictions |-> replaced]

\* put(key, value, ttl) at time t: gives the state and the evictions counted
put(s, cap, key, value, ttl, t) ==
  LET s1 == IF key \in DOMAIN s.hash THEN evict(s, s.hash[key]) ELSE s
      s2 == prepend(s1, key, value, t + ttl)
      s3 == [s2 EXCEPT !.hash = With(s2.hash, key, Len(s2.heap))]
  IN IF overCapacity(s3, cap)
       THEN LET r == pop(s3) IN
            IF r.node # NULL
              THEN [s |-> [r.s EXCEPT !.hash = Without(r.s.hash, r.s.heap[r.node].key)],
                    evictions |-> 1]
              ELSE [s |-> r.s, evictions |-> 0]
       ELSE [s |-> s3, evictions |-> 0]

\* the expiry test with <= for <
expired_atDeadline(node, t) == node.ttl <= t

\* node.ttl < now
expired(node, t) == node.ttl < t

\* get() of index.ts returning the value without moving the node to the head
getIndexTs_noPromotion(s, key, t) ==
  IF key \notin DOMAIN s.hash
    THEN [s |-> s, val |-> Undefined, hit |-> 0, miss |-> 1]
    ELSE LET n == s.hash[key]
         IN IF expired(s.heap[n], t)
              THEN [s |-> evict(s, n), val |-> Undefined, hit |-> 0, miss |-> 1]
              ELSE [s |-> s, val |-> s.heap[n].value, hit |-> 1, miss |-> 0]

\* get() of index.ts counting an expired entry as a hit
getIndexTs_expiredCountsAsHit(s, key, t) ==
  IF key \notin DOMAIN s.hash
    THEN [s |-> s, val |-> Undefined, hit |-> 0, miss |-> 1]
    ELSE LET n == s.hash[key]
             s1 == evict(s, n)
         IN IF expired(s1.heap[n], t)
              THEN [s |-> s1, val |-> Undefined, hit |-> 1, miss |-> 0]
              ELSE [s |-> prepend(s1, s1.heap[n].key, s1.heap[n].value, s1.heap[n].ttl),
                    val |-> s1.heap[n].value, hit |-> 1, miss |-> 0]

\* get(key) of src/src/index.ts at time t: the node is unlinked before the
\* expiry test.  Gives the state, the value returned and the counter increments.
getIndexTs(s, key, t) ==
  IF key \notin DOMAIN s.hash
    THEN [s |-> s, val |-> Undefined, hit |-> 0, miss |-> 1]
    ELSE LET n == s.hash[key]
             s1 == evict(s, n)
         IN IF expired(s1.heap[n], t)
              THEN [s |-> s1, val |-> Undefined, hit |-> 0, miss |-> 1]
              ELSE [s |-> prepend(s1, s1.heap[n].key, s1.heap[n].value, s1.heap[n].ttl),
                    val |-> s1.heap[n].value, hit |-> 1, miss |-> 0]

\* get() of part_000 returning the value without moving the node to the head
getPart000_noPromotion(s, key, t) ==
  IF key \notin DOMAIN s.hash \/ expired(s.heap[s.hash[key]], t)
    THEN [s |-> s, val |-> Undefined, hit |-> 0, miss |-> 1]
    ELSE [s |-> s, val |-> s.heap[s.hash[key]].value, hit |-> 1, miss |-> 0]

\* get() of part_000 giving the entry one more unit of life on every hit
getPart000_extendsLife(s, key, t) ==
  IF key \notin DOMAIN s.hash \/ expired(s.heap[s.hash[key]], t)
    THEN [s |-> s, val |-> Undefined, hit |-> 0, miss |-> 1]
    ELSE LET n == s.hash[key]
             s1 == evict(s, n)
         IN [s |-> prepend(s1, s1.heap[n].key, s1.heap[n].value, s1.heap[n].ttl + 1),
             val |-> s1.heap[n].value, hit |-> 1, miss |-> 0]

\* get(key) of src/unnamed/part_000 at time t: an expired node is left in place
getPart000(s, key, t) ==
  IF key \notin DOMAIN s.hash \/ expired(s.heap[s.hash[key]], t)
    THEN [s |-> s, val |-> Undefined, hit |-> 0, miss |-> 1]
    ELSE LET n == s.hash[key]
             s1 == evict(s, n)
         IN [s |-> prepend(s1, s1.heap[n].key, s1.heap[n].value, s1.heap[n].ttl),
             val |-> s1.heap[n].value, hit |-> 1, miss |-> 0]

\* Option.none() and Option.some(value) of adev-monads
OptionNone == <<"none">>

OptionSome(value) == <<"some", value>>

\* what the caller of getOption takes out of the Option (Undefined: nothing)
Unwrap(option) == IF option = OptionNone THEN Undefined ELSE option[2]

\* getOption(key) that tests the expiry after it has unlinked the node
getOption_unlinksExpired(s, key, t) ==
  IF key \notin DOMAIN s.hash
    THEN [s |-> s, val |-> OptionNone, hit |-> 0, miss |-> 1]
    ELSE LET n == s.hash[key]
             s1 == evict(s, n)
         IN IF expired(s1.heap[n], t)
              THEN [s |-> s1, val |-> OptionNone, hit |-> 0, miss |-> 1]
              ELSE [s |-> prepend(s1, s1.heap[n].key, s1.heap[n].value, s1.heap[n].ttl),
                    val |-> OptionSome(s1.heap[n].value), hit |-> 1, miss |-> 0]

\* getOption(key) counting two misses for a key that is not indexed
getOption_missCountedTwice(s, key, t) ==
  IF key \notin DOMAIN s.hash
    THEN [s |-> s, val |-> OptionNone, hit |-> 0, miss |-> 2]
    ELSE IF expired(s.heap[s.hash[key]], t)
      THEN [s |-> s, val |-> OptionNone, hit |-> 0, miss |-> 1]
      ELSE LET n == s.hash[key]
               s1 == evict(s, n)
           IN [s |-> prepend(s1, s1.heap[n].key, s1.heap[n].value, s1.heap[n].ttl),
               val |-> OptionSome(s1.heap[n].value), hit |-> 1, miss |-> 0]

\* getOption(key) of src/unnamed/part_000: val is the Option returned
getOption(s, key, t) ==
  IF key \notin DOMAIN s.hash \/ expired(s.heap[s.hash[key]], t)
    THEN [s |-> s, val |-> OptionNone, hit |-> 0, miss |-> 1]
    ELSE LET n == s.hash[key]
             s1 == evict(s, n)
         IN [s |-> prepend(s1, s1.heap[n].key, s1.heap[n].value, s1.heap[n].ttl),
             val |-> OptionSome(s1.heap[n].value), hit |-> 1, miss |-> 0]

\* clear() emptying the map and leaving head and tail set
clearList_keepsList(s) == [s EXCEPT !.hash = <<>>]

\* this.hash.clear(); this.head = this.tail = undefined
clearList(s) == [s EXCEPT !.hash = <<>>, !.head = NULL, !.tail = NULL]

(* ------------------------------- metrics ------------------------------ *)

RECURSIVE GCD(_, _)
GCD(a, b) == IF b = 0 THEN a ELSE GCD(b, a % b)

\* the number n / d (d > 0) as a fraction in lowest terms, <<numerator, denominator>>
Divide(n, d) == <<n \div GCD(n, d), d \div GCD(n, d)>>

\* the number 0
Zero == <<0, 1>>

\* private getHitRate()
getHitRate(hits, misses) ==
  LET totalRequests == hits + misses
  IN IF totalRequests = 0 THEN Zero ELSE Divide(hits, totalRequests)

\* private getMissRate()
getMissRate(hits, misses) ==
  LET totalRequests == hits + misses
  IN IF totalRequests = 0 THEN Zero ELSE Divide(misses, totalRequests)

\* getEvictionRate() dividing by the calls and the evictions together
getEvictionRate_ofAllEvents(hits, misses, evictions) ==
  LET totalRequests == hits + misses + evictions
  IN IF totalRequests = 0 THEN Zero ELSE Divide(evictions, totalRequests)

\* private getEvictionRate()
getEvictionRate(hits, misses, evictions) ==
  LET totalRequests == hits + misses
  IN IF totalRequests = 0 THEN Zero ELSE Divide(evictions, totalRequests)

(* ---------------- object identity and garbage collection -------------- *)

\* the nodes walked from n by next (stops at a node met before)
RECURSIVE Walk(_, _, _)
Walk(h, n, seen) ==
  IF n = NULL \/ n \in seen THEN <<>>
  ELSE <<n>> \o Walk(h, h[n].next, seen \cup {n})

RECURSIVE Closure(_, _)
Closure(h, S) ==
  LET T == (S \cup {h[i].prev : i \in S} \cup {h[i].next : i \in S}) \ {NULL}
  IN IF T = S THEN S ELSE Closure(h, T)

RECURSIVE SortedSeq(_)
SortedSeq(S) ==
  IF S = {} THEN <<>>
  ELSE LET m == CHOOSE x \in S : \A y \in S : x <= y
       IN <<m>> \o SortedSeq(S \ {m})

Range(f) == {f[x] : x \in DOMAIN f}

\* A node no reference leads to is garbage, and a node's identity shows only in
\* comparisons of references: the live nodes are renumbered 1.. in the order of
\* the walk from head (then any other live node), which keeps every reference
\* and every comparison as it was.
Normalize(s) ==
  LET roots == ({s.head, s.tail} \cup Range(s.hash)) \ {NULL}
      live == Closure(s.heap, roots)
      walk == Walk(s.heap, s.head, {})
      order == walk \o SortedSeq(live \ Range(walk))
      Pos(n) == IF n = NULL THEN NULL ELSE CHOOSE i \in 1..Len(order) : order[i] = n
  IN [hash |-> [k \in DOMAIN s.hash |-> Pos(s.hash[k])],
      heap |-> [i \in 1..Len(order) |->
                 [s.heap[order[i]] EXCEPT !.prev = Pos(@), !.next = Pos(@)]],
      head |-> Pos(s.head),
      tail |-> Pos(s.tail)]

Install(s) ==
  LET n == Normalize(s) IN
  /\ hash' = n.hash
  /\ heap' = n.heap
  /\ head' = n.head
  /\ tail' = n.tail

(* ------------------------------ history ------------------------------- *)

RECURSIVE SelectKeys(_, _)
SelectKeys(q, S) ==
  IF q = <<>> THEN <<>>
  ELSE (IF Head(q) \in S THEN <<Head(q)>> ELSE <<>>) \o SelectKeys(Tail(q), S)

\* k becomes the latest key used; keys no longer indexed are dropped
Touch(q, k, indexed) == SelectKeys(<<k>> \o SelectKeys(q, Keys \ {k}), indexed)

(* ------------------------------ actions ------------------------------- *)

Init ==
  /\ impl \in Impls
  /\ instance = FALSE
  /\ capacity = 0
  /\ hash = <<>>
  /\ heap = <<>>
  /\ head = NULL
  /\ tail = NULL
  /\ hitCount = 0
  /\ missCount = 0
  /\ evictionCount = 0
  /\ now = 0
  /\ last = [op |-> "load", key |-> Undefined, val |-> Undefined, had |-> FALSE]
  /\ recency = <<>>
  /\ stored = <<>>
  /\ getCalls = 0
  /\ logged = <<>>

\* getInstance(capacity) that constructs a new cache on every call
GetInstance_reconstructs(c) ==
  /\ instance' = TRUE
  /\ capacity' = c
  /\ hash' = <<>>
  /\ heap' = <<>>
  /\ head' = NULL
  /\ tail' = NULL
  /\ hitCount' = 0
  /\ missCount' = 0
  /\ evictionCount' = 0
  /\ recency' = <<>>
  /\ stored' = <<>>
  /\ last' = [op |-> "getInstance", key |-> Undefined, val |-> Undefined, had |-> instance]
  /\ UNCHANGED <<logged, impl, now, getCalls>>

\* static getInstance(capacity): the constructor runs on the first call only
GetInstance(c) ==
  /\ IF ~instance
       THEN /\ instance' = TRUE
            /\ capacity' = c
            /\ hash' = <<>>
            /\ head' = NULL
            /\ tail' = NULL
            /\ hitCount' = 0
            /\ missCount' = 0
            /\ evictionCount' = 0
       ELSE UNCHANGED <<instance, capacity, hash, head, tail, hitCount, missCount,
                        evictionCount>>
  /\ last' = [op |-> "getInstance", key |-> Undefined, val |-> Undefined, had |-> instance]
  /\ UNCHANGED <<logged, impl, heap, now, recency, stored, getCalls>>

Put(k, v, ttl) ==
  /\ instance
  /\ evictionCount < MaxCount
  /\ LET r == put(Cur, capacity, k, v, ttl, now) IN
     /\ Install(r.s)
     /\ evictionCount' = evictionCount + r.evictions
     /\ recency' = Touch(recency, k, DOMAIN r.s.hash)
     /\ stored' = [x \in (DOMAIN stored \cup {k}) \cap
                          ((Keys \ (DOMAIN hash \cup {k})) \cup DOMAIN r.s.hash) |->
                     IF x = k THEN [value |-> v, expiresAt |-> now + ttl] ELSE stored[x]]
  /\ last' = [op |-> "put", key |-> k, val |-> v, had |-> k \in DOMAIN hash]
  /\ UNCHANGED <<logged, impl, instance, capacity, hitCount, missCount, now, getCalls>>

Lookup(r, op, k) ==
  /\ Install(r.s)
  /\ hitCount' = hitCount + r.hit
  /\ missCount' = missCount + r.miss
  /\ recency' = IF r.val # Undefined
                  THEN Touch(recency, k, DOMAIN r.s.hash)
                  ELSE SelectKeys(recency, DOMAIN r.s.hash)
  /\ getCalls' = getCalls + 1
  /\ last' = [op |-> op, key |-> k, val |-> r.val, had |-> k \in DOMAIN hash]
  /\ UNCHANGED <<logged, impl, instance, capacity, evictionCount, now, stored>>

Get(k) ==
  /\ instance
  /\ hitCount + missCount < MaxCount
  /\ Lookup(IF impl = "index.ts" THEN getIndexTs(Cur, k, now) ELSE getPart000(Cur, k, now),
            "get", k)

GetOption(k) ==
  /\ instance
  /\ impl = "part_000"
  /\ hitCount + missCount < MaxCount
  /\ LET r == getOption(Cur, k, now) IN
     Lookup([r EXCEPT !.val = Unwrap(r.val)], "getOption", k)

\* clearMetrics() that also empties the cache, as clear() does
ClearMetrics_alsoClears ==
  /\ instance
  /\ Install(clearList(Cur))
  /\ hitCount' = 0
  /\ missCount' = 0
  /\ evictionCount' = 0
  /\ getCalls' = 0
  /\ recency' = <<>>
  /\ stored' = <<>>
  /\ last' = [op |-> "clearMetrics", key |-> Undefined, val |-> Undefined,
              had |-> hitCount + missCount + evictionCount > 0]
  /\ UNCHANGED <<logged, impl, instance, capacity, now>>

\* clearMetrics(): the three counters to zero
ClearMetrics ==
  /\ instance
  /\ hitCount' = 0
  /\ missCount' = 0
  /\ evictionCount' = 0
  /\ getCalls' = 0
  /\ last' = [op |-> "clearMetrics", key |-> Undefined, val |-> Undefined,
              had |-> hitCount + missCount + evictionCount > 0]
  /\ UNCHANGED <<logged, impl, instance, capacity, hash, heap, head, tail, now, recency, stored>>

\* clear(): part_000 also calls clearMetrics(), index.ts does not
Clear ==
  /\ instance
  /\ Install(clearList(Cur))
  /\ IF impl = "part_000"
       THEN /\ hitCount' = 0
            /\ missCount' = 0
            /\ evictionCount' = 0
            /\ getCalls' = 0
       ELSE UNCHANGED <<hitCount, missCount, evictionCount, getCalls>>
  /\ recency' = <<>>
  /\ stored' = <<>>
  /\ last' = [op |-> "clear", key |-> Undefined, val |-> Undefined, had |-> DOMAIN hash # {}]
  /\ UNCHANGED <<logged, impl, instance, capacity, now>>

\* logMetrics(): the hit, miss and eviction rates, one console.log line each
LogMetrics ==
  /\ instance
  /\ logged' = <<getHitRate(hitCount, missCount),
                 getMissRate(hitCount, missCount),
                 getEvictionRate(hitCount, missCount, evictionCount)>>
  /\ last' = [op |-> "logMetrics", key |-> Undefined, val |-> Undefined, had |-> FALSE]
  /\ UNCHANGED <<impl, instance, capacity, hash, heap, head, tail, hitCount, missCount,
                 evictionCount, now, recency, stored, getCalls>>

\* a clock with a timer that removes an entry as soon as it has expired
Tick_sweeps ==
  /\ now < MaxTime
  /\ now' = now + 1
  /\ LET E == {k \in DOMAIN hash : expired(heap[hash[k]], now + 1)}
         s == IF E = {} THEN Cur ELSE evict(Cur, hash[CHOOSE k \in E : TRUE])
     IN /\ Install(s)
        /\ recency' = SelectKeys(recency, DOMAIN s.hash)
  /\ last' = [op |-> "tick", key |-> Undefined, val |-> Undefined, had |-> FALSE]
  /\ UNCHANGED <<logged, impl, instance, capacity, hitCount, missCount, evictionCount, stored,
                 getCalls>>

\* the clock moves on between two calls
Tick ==
  /\ now < MaxTime
  /\ now' = now + 1
  /\ last' = [op |-> "tick", key |-> Undefined, val |-> Undefined, had |-> FALSE]
  /\ UNCHANGED <<logged, impl, instance, capacity, hash, heap, head, tail, hitCount, missCount,
                 evictionCount, recency, stored, getCalls>>

Next ==
  \/ \E c \in CapArgs : GetInstance(c)
  \/ \E k \in Keys, v \in Values, ttl \in Ttls : Put(k, v, ttl)
  \/ \E k \in Keys : Get(k)
  \/ \E k \in Keys : GetOption(k)
  \/ ClearMetrics
  \/ Clear
  \/ Tick

Spec == Init /\ [][Next]_vars

\* The rates are functions of the three counters alone.  This specification
\* starts from a cache of capacity 1 that holds one entry after any number of
\* hits, misses and evictions (put a, put b, ..., put a; get a; get b), and
\* logs and clears the metrics.
InitRates ==
  /\ impl \in Impls
  /\ instance = TRUE
  /\ capacity = 1
  /\ hash = [k \in {"a"} |-> 1]
  /\ heap = <<[key |-> "a", value |-> "v1", ttl |-> 0, prev |-> NULL, next |-> NULL]>>
  /\ head = 1
  /\ tail = 1
  /\ hitCount \in 0..MaxRateCount
  /\ missCount \in 0..MaxRateCount
  /\ evictionCount \in 0..MaxRateCount
  /\ now = 0
  /\ last = [op |-> "getInstance", key |-> Undefined, val |-> Undefined, had |-> TRUE]
  /\ recency = <<"a">>
  /\ stored = [k \in {"a"} |-> [value |-> "v1", expiresAt |-> 0]]
  /\ getCalls = hitCount + missCount
  /\ logged = <<>>

NextRates ==
  \/ LogMetrics
  \/ ClearMetrics

SpecRates == InitRates /\ [][NextRates]_vars

(* ------------------------- names used by the claims -------------------- *)

Size == Cardinality(DOMAIN hash)

IsGet(op) == op \in {"get", "getOption"}

\* the nodes linked from head, and their keys, head first
ListNodes == Walk(heap, head, {})

ListKeys == [i \in 1..Len(ListNodes) |-> heap[ListNodes[i]].key]

\* the key of S used longest ago (Undefined: none)
Oldest(S) ==
  LET q == SelectKeys(recency, S) IN IF q = <<>> THEN Undefined ELSE q[Len(q)]

TailKey == IF tail = NULL THEN Undefined ELSE heap[tail].key

\* the nodes walked from n by prev (stops at a node met before)
RECURSIVE WalkBack(_, _, _)
WalkBack(h, n, seen) ==
  IF n = NULL \/ n \in seen THEN <<>>
  ELSE <<n>> \o WalkBack(h, h[n].prev, seen \cup {n})

Reverse(q) == [i \in 1..Len(q) |-> q[Len(q) + 1 - i]]

(* -------------------------------- C1 ----------------------------------- *)

\* C1: with a capacity of at least 1, after every public operation the index
\* holds at most capacity keys.
C1_CapacityBound == (instance /\ capacity >= 1) => Size <= capacity

\* a put into a full cache has just evicted
C1_Witness ==
  /\ instance /\ capacity >= 1
  /\ last.op = "put" /\ evictionCount >= 1 /\ Size = capacity

(* -------------------------------- C2 ----------------------------------- *)

\* C2: a put of a key that is not indexed into a full cache (capacity >= 1)
\* removes exactly one key, the one whose latest put or hit is the oldest, which
\* is the key of the list tail; every other key stays and the new key is indexed.
C2_EvictsLeastRecentlyUsed ==
  [][(/\ instance /\ capacity >= 1
      /\ last'.op = "put" /\ last'.key \notin DOMAIN hash
      /\ Size = capacity)
     => (/\ Oldest(DOMAIN hash) \in DOMAIN hash
         /\ Oldest(DOMAIN hash) = TailKey
         /\ DOMAIN hash' = (DOMAIN hash \ {Oldest(DOMAIN hash)}) \cup {last'.key}
         /\ Cardinality(DOMAIN hash \ DOMAIN hash') = 1)]_vars

\* a put of a new key has evicted from a full cache of the largest capacity
C2_Witness ==
  /\ instance /\ capacity = MaxCap
  /\ last.op = "put" /\ ~last.had /\ evictionCount >= 1
  /\ Size = capacity /\ last.key \in DOMAIN hash

(* -------------------------------- C3 ----------------------------------- *)

\* C3: after a hit on k in a full cache of capacity >= 2, the next put of a key
\* that is not indexed keeps k and evicts the key used longest ago among the
\* others.
C3_HitProtectsFromEviction ==
  [][(/\ instance /\ capacity >= 2
      /\ IsGet(last.op) /\ last.val # Undefined
      /\ Size = capacity
      /\ last'.op = "put" /\ last'.key \notin DOMAIN hash)
     => (/\ last.key \in DOMAIN hash'
         /\ Oldest(DOMAIN hash \ {last.key}) \in DOMAIN hash
         /\ DOMAIN hash' =
              (DOMAIN hash \ {Oldest(DOMAIN hash \ {last.key})}) \cup {last'.key})]_vars

\* a hit has just happened in a full cache of capacity >= 2, and a put of a new
\* key that keeps the key hit can follow
C3_Witness ==
  /\ instance /\ capacity >= 2
  /\ IsGet(last.op) /\ last.val # Undefined /\ Size = capacity
  /\ ENABLED (\E k \in Keys \ DOMAIN hash, v \in Values, ttl \in Ttls :
                Put(k, v, ttl) /\ last.key \in DOMAIN hash')

(* -------------------------------- C4 ----------------------------------- *)

\* C4: while the entry of put(k, v, ttl) at t0 is neither replaced, evicted nor
\* cleared, get(k) at t returns v and counts a hit when t <= t0 + ttl, and
\* returns absent and counts a miss, not a hit, when t > t0 + ttl; every hit is
\* on an entry that is not expired.
C4_TtlExpiry ==
  [][IsGet(last'.op)
     => /\ last'.key \in DOMAIN stored
           => IF now <= stored[last'.key].expiresAt
                THEN /\ last'.val = stored[last'.key].value
                     /\ hitCount' = hitCount + 1
                     /\ missCount' = missCount
                ELSE /\ last'.val = Undefined
                     /\ missCount' = missCount + 1
                     /\ hitCount' = hitCount
        /\ last'.val # Undefined
           => /\ last'.key \in DOMAIN stored
              /\ now <= stored[last'.key].expiresAt]_vars

\* a get has just missed on an entry whose expiry time has passed
C4_Witness ==
  /\ IsGet(last.op) /\ last.val = Undefined /\ last.had
  /\ last.key \in DOMAIN stored
  /\ stored[last.key].expiresAt < now
  /\ missCount >= 1

(* -------------------------------- C5 ----------------------------------- *)

\* C5: a put on a key that is already indexed replaces: the indexed keys are
\* the same as before, the list holds one node for the key, nothing is evicted,
\* and a get of the key that follows returns the new value.
C5_UpdateInPlace ==
  /\ [][(last'.op = "put" /\ last'.key \in DOMAIN hash)
        => (/\ DOMAIN hash' = DOMAIN hash
            /\ Cardinality({i \in 1..Len(heap') : heap'[i].key = last'.key}) = 1
            /\ heap'[hash'[last'.key]].value = last'.val
            /\ evictionCount' = evictionCount)]_vars
  /\ [][(/\ last.op = "put" /\ last.had
         /\ IsGet(last'.op) /\ last'.key = last.key)
        => last'.val = last.val]_vars

\* a put has just replaced a key of a full cache holding two keys or more
C5_Witness ==
  /\ instance /\ capacity >= 2 /\ Size = capacity
  /\ last.op = "put" /\ last.had
  /\ head # NULL /\ heap[head].key = last.key /\ heap[head].value = last.val

(* -------------------------------- C6 ----------------------------------- *)

\* C6: with capacity >= 1, a get of k right after put(k, v, ttl) returns v; and
\* the value of every hit is the value of the latest put of that key.
C6_ReadYourWrite ==
  /\ [][(/\ instance /\ capacity >= 1
         /\ last.op = "put"
         /\ IsGet(last'.op) /\ last'.key = last.key)
        => last'.val = last.val]_vars
  /\ [][(IsGet(last'.op) /\ last'.val # Undefined)
        => (/\ last'.key \in DOMAIN stored
            /\ last'.val = stored[last'.key].value)]_vars

\* a put of a new key has just evicted from a full cache, and a get of that key
\* returning the value put can follow
C6_Witness ==
  /\ instance /\ capacity >= 1
  /\ last.op = "put" /\ ~last.had /\ evictionCount >= 1
  /\ ENABLED (Get(last.key) /\ last'.val = last.val)

(* -------------------------------- C7 ----------------------------------- *)

\* C7: after clear() the index is empty and head and tail are unset; while the
\* index is empty every get returns absent; and a put of a new key into a
\* cache below its capacity adds the key and evicts nothing.
C7_ClearEmpties ==
  /\ [](last.op = "clear" => (DOMAIN hash = {} /\ head = NULL /\ tail = NULL))
  /\ [][(IsGet(last'.op) /\ DOMAIN hash = {}) => last'.val = Undefined]_vars
  /\ [][(/\ last'.op = "put" /\ last'.key \notin DOMAIN hash
         /\ Size < capacity)
        => (/\ DOMAIN hash' = DOMAIN hash \cup {last'.key}
            /\ evictionCount' = evictionCount)]_vars

\* clear() has just emptied a cache that held entries
C7_Witness ==
  /\ last.op = "clear" /\ last.had
  /\ DOMAIN hash = {} /\ capacity >= 1

(* -------------------------------- C8 ----------------------------------- *)

\* C8: right after clear() the hit, miss and eviction counters are zero.
C8_ClearResetsCounters ==
  last.op = "clear" => (hitCount = 0 /\ missCount = 0 /\ evictionCount = 0)

(* -------------------------------- C9 ----------------------------------- *)

\* C9: clearMetrics() sets the three counters to zero and leaves the index, the
\* nodes (keys, values, expiry times, links), head, tail and the capacity as
\* they were.
C9_ClearMetricsFrame ==
  [][last'.op = "clearMetrics"
     => (/\ hitCount' = 0 /\ missCount' = 0 /\ evictionCount' = 0
         /\ UNCHANGED <<hash, heap, head, tail, capacity>>)]_vars

\* clearMetrics() has just zeroed counters of a full cache
C9_Witness ==
  /\ last.op = "clearMetrics" /\ last.had
  /\ capacity >= 1 /\ Size = capacity
  /\ hitCount = 0 /\ missCount = 0 /\ evictionCount = 0

(* -------------------------------- C10 ---------------------------------- *)

\* C10: every get and getOption adds one to exactly one of hitCount (a value is
\* returned) and missCount (absent is returned); hitCount + missCount is the
\* number of these calls since the counters were last zeroed; put changes
\* neither.
C10_GetCountsOnce ==
  /\ [][IsGet(last'.op)
        => IF last'.val # Undefined
             THEN hitCount' = hitCount + 1 /\ missCount' = missCount
             ELSE missCount' = missCount + 1 /\ hitCount' = hitCount]_vars
  /\ [](hitCount + missCount = getCalls)
  /\ [][last'.op = "put" => UNCHANGED <<hitCount, missCount>>]_vars

\* a get has just missed on a key that was indexed, and one miss is counted
C10_Witness ==
  /\ IsGet(last.op) /\ last.val = Undefined /\ last.had
  /\ missCount = 1 /\ hitCount = 0 /\ getCalls = 1

(* -------------------------------- C11 ---------------------------------- *)

\* C11: evictionCount goes up by exactly one on a put after which the index
\* would hold more keys than capacity, and on nothing else: not on a put that
\* replaces an indexed key, and not on any get (hit, miss or expired).
C11_EvictionCounting ==
  /\ [][last'.op = "put"
        => /\ evictionCount' = evictionCount +
                (IF Cardinality(DOMAIN hash \cup {last'.key}) > capacity THEN 1 ELSE 0)
           /\ evictionCount' - evictionCount =
                Cardinality((DOMAIN hash \cup {last'.key}) \ DOMAIN hash')
           /\ last'.had => evictionCount' = evictionCount]_vars
  /\ [][IsGet(last'.op) => evictionCount' = evictionCount]_vars
  /\ [][evictionCount' > evictionCount => last'.op = "put"]_vars

\* a put into a full cache of capacity 1 has just been counted as one eviction
C11_Witness ==
  /\ instance /\ capacity = 1 /\ Size = 1
  /\ last.op = "put" /\ ~last.had /\ evictionCount = 1
  /\ hitCount + missCount >= 1

(* -------------------------------- C12 ---------------------------------- *)

\* C12: the rates logged are hits/(hits+misses), misses/(hits+misses) and
\* evictions/(hits+misses) (as exact fractions n/d: n * total = count * d); with
\* hits+misses = 0 all three are 0 and nothing is divided by zero; with
\* hits+misses > 0 the hit rate and the miss rate add up to 1.
C12_Rates ==
  last.op = "logMetrics"
  => LET total == hitCount + missCount
         hr == logged[1]
         mr == logged[2]
         er == logged[3]
     IN /\ hr[2] > 0 /\ mr[2] > 0 /\ er[2] > 0
        /\ IF total = 0
             THEN hr[1] = 0 /\ mr[1] = 0 /\ er[1] = 0
             ELSE /\ hr[1] * total = hitCount * hr[2]
                  /\ mr[1] * total = missCount * mr[2]
                  /\ er[1] * total = evictionCount * er[2]
                  /\ hr[1] * mr[2] + mr[1] * hr[2] = hr[2] * mr[2]

\* two hits and one miss have been logged as 2/3 and 1/3
C12_Witness ==
  /\ last.op = "logMetrics"
  /\ hitCount = 2 /\ missCount = 1 /\ evictionCount = 1
  /\ logged = <<<<2, 3>>, <<1, 3>>, <<1, 3>>>>

(* -------------------------------- C13 ---------------------------------- *)

\* C13: when a get finds its key indexed but expired, the entry is destroyed:
\* after the call the key is not in the index, no linked node carries it, and
\* no node is kept for it.
C13_ExpiredReadDestroys ==
  (instance /\ IsGet(last.op) /\ last.had /\ last.val = Undefined)
  => /\ last.key \notin DOMAIN hash
     /\ \A i \in 1..Len(ListKeys) : ListKeys[i] # last.key
     /\ \A n \in 1..Len(heap) : heap[n].key # last.key

(* -------------------------------- C14 ---------------------------------- *)

\* C14: a non-positive capacity is rejected at construction: no instance with
\* capacity <= 0 ever exists.
C14_PositiveCapacity == instance => capacity >= 1

(* -------------------------------- C15 ---------------------------------- *)

C16_GetOptionIsGet ==
  (instance /\ impl = "part_000")
  => \A k \in Keys :
       LET g == getPart000(Cur, k, now)
           o == getOption(Cur, k, now)
       IN /\ o.val = (IF g.val = Undefined THEN OptionNone ELSE OptionSome(g.val))
          /\ Normalize(o.s) = Normalize(g.s)
          /\ o.s = g.s
          /\ o.hit = g.hit /\ o.miss = g.miss

\* getOption of part_000 has just given Option.none for an indexed, expired
\* key, which it left indexed, while another key would be a hit
C16_Witness ==
  /\ instance /\ impl = "part_000"
  /\ last.op = "getOption" /\ last.had /\ last.val = Undefined
  /\ last.key \in DOMAIN hash
  /\ \E k1 \in DOMAIN hash : getOption(Cur, k1, now).val # OptionNone

(* -------------------------------- C17 ---------------------------------- *)

\* C17: the index and the list hold the same entries: every indexed key maps
\* to a node that carries this key and is met exactly once on the walk from
\* head; every node on the walk is the one its key is indexed to; no key is on
\* the walk twice; and no node is kept that is not on the walk.
C17_IndexListBijection ==
  instance
  => /\ \A k \in DOMAIN hash :
          /\ heap[hash[k]].key = k
          /\ Cardinality({i \in 1..Len(ListNodes) : ListNodes[i] = hash[k]}) = 1
     /\ \A i \in 1..Len(ListNodes) :
          /\ ListKeys[i] \in DOMAIN hash
          /\ hash[ListKeys[i]] = ListNodes[i]
     /\ \A i, j \in 1..Len(ListKeys) : ListKeys[i] = ListKeys[j] => i = j
     /\ Len(ListNodes) = Size
     /\ {ListNodes[i] : i \in 1..Len(ListNodes)} = 1..Len(heap)

\* a get has just found an expired key in a cache that holds another entry
C17_Witness ==
  /\ instance /\ IsGet(last.op) /\ last.had /\ last.val = Undefined
  /\ Size >= 1 /\ TailKey # last.key /\ evictionCount = 1

(* -------------------------------- C18 ---------------------------------- *)

\* C18: the list is a well-formed doubly linked list: head and tail are unset
\* exactly when the index is empty; head has no prev and tail has no next;
\* n.next = m exactly when m.prev = n; the walk from head by next ends at tail;
\* and the walk from tail by prev meets the same nodes in reverse order.
C18_WellFormedList ==
  instance
  => /\ (head = NULL) <=> (Size = 0)
     /\ (tail = NULL) <=> (Size = 0)
     /\ head # NULL => heap[head].prev = NULL
     /\ tail # NULL => heap[tail].next = NULL
     /\ \A n \in 1..Len(heap) :
          /\ heap[n].next # NULL => heap[heap[n].next].prev = n
          /\ heap[n].prev # NULL => heap[heap[n].prev].next = n
     /\ ListNodes # <<>> => ListNodes[Len(ListNodes)] = tail
     /\ WalkBack(heap, tail, {}) = Reverse(ListNodes)

\* a put has just evicted the tail of a full list of two nodes
C18_Witness ==
  /\ instance /\ capacity = 2 /\ Size = 2
  /\ last.op = "put" /\ ~last.had /\ evictionCount = 1
  /\ heap[head].next = tail /\ heap[tail].prev = head /\ head # tail

(* -------------------------------- C19 ---------------------------------- *)

\* C19: the keys met on the walk from head to tail are the indexed keys in the
\* order of their latest use, a put or a get that hit, latest first.
C19_RecencyOrder == instance => ListKeys = recency

\* a get has just hit the key that was at the tail of a list of two, which is
\* now at the head
C19_Witness ==
  /\ instance /\ IsGet(last.op) /\ last.val # Undefined
  /\ Len(ListKeys) = 2 /\ ListKeys[1] = last.key
  /\ recency = ListKeys /\ TailKey # last.key

(* -------------------------------- C20 ---------------------------------- *)

\* C20: expiry is lazy.  The passage of time changes nothing in the cache; a
\* key leaves the index only in a put, a get or a clear; and a put of a new
\* key into a full cache whose tail is not expired while another entry is
\* expired evicts the tail and keeps every other entry, the expired one too.
C20_LazyExpiry ==
  /\ [][now' # now => UNCHANGED <<hash, heap, head, tail, hitCount, missCount,
                                  evictionCount>>]_vars
  /\ [][DOMAIN hash \ DOMAIN hash' # {}
        => last'.op \in {"put", "get", "getOption", "clear"}]_vars
  /\ [][(/\ last'.op = "put" /\ ~last'.had
         /\ capacity >= 1 /\ Size = capacity
         /\ ~expired(heap[tail], now)
         /\ \E e \in DOMAIN hash : expired(heap[hash[e]], now))
        => /\ TailKey \notin DOMAIN hash'
           /\ DOMAIN hash' = (DOMAIN hash \ {TailKey}) \cup {last'.key}
           /\ \A e \in DOMAIN hash \ {TailKey} :
                 heap'[hash'[e]].ttl = heap[hash[e]].ttl
           /\ evictionCount' = evictionCount + 1]_vars

\* time has just passed over a full cache, leaving an entry expired that is
\* still indexed and a tail that is not expired, and a put of a new key that
\* evicts this tail and keeps the expired entry can follow
C20_Witness ==
  /\ instance /\ capacity = 2 /\ Size = 2
  /\ last.op = "tick"
  /\ ~expired(heap[tail], now)
  /\ expired(heap[head], now)
  /\ ENABLED (\E k \in Keys \ DOMAIN hash, v \in Values, ttl \in Ttls :
                /\ Put(k, v, ttl)
                /\ heap[head].key \in DOMAIN hash'
                /\ TailKey \notin DOMAIN hash')

(* -------------------------------- C21 ---------------------------------- *)

\* C21: a hit does not extend the life of an entry: a get or getOption leaves
\* the expiry time of every entry it keeps as it was, the entry read included;
\* the expiry time of an indexed entry is always the one its latest put gave it
\* (the time of that put plus its ttl); and a put changes the expiry time of no
\* other key.
C21_HitKeepsExpiry ==
  /\ [][IsGet(last'.op)
        => \A k \in DOMAIN hash' :
             /\ k \in DOMAIN hash
             /\ heap'[hash'[k]].ttl = heap[hash[k]].ttl]_vars
  /\ [](instance => \A k \in DOMAIN hash :
                      /\ k \in DOMAIN stored
                      /\ heap[hash[k]].ttl = stored[k].expiresAt)
  /\ [][last'.op = "put"
        => \A k \in DOMAIN hash' :
             IF k = last'.key
               THEN heap'[hash'[k]].ttl \in {now + ttl : ttl \in Ttls}
               ELSE k \in DOMAIN hash /\ heap'[hash'[k]].ttl = heap[hash[k]].ttl]_vars

\* at time 1 a getOption has just hit an entry that still expires at time 1
\* and is now at the head of a list of two
C21_Witness ==
  /\ instance /\ last.op = "getOption" /\ last.val # Undefined
  /\ now = 1 /\ Size = 2
  /\ heap[head].key = last.key
  /\ heap[head].ttl = 1 /\ stored[last.key].expiresAt = 1

(* -------------------------------- C22 ---------------------------------- *)

\* C22: a get or getOption of a key that is not indexed returns absent, adds
\* one to missCount and changes nothing else: not the map, the nodes with
\* their values and expiry times, head, tail, the order of use, hitCount or
\* evictionCount.
C22_MissOnAbsentKeyFrame ==
  [][(IsGet(last'.op) /\ ~last'.had)
     => /\ last'.val = Undefined
        /\ missCount' = missCount + 1
        /\ UNCHANGED <<hash, heap, head, tail, hitCount, evictionCount, recency, stored,
                       capacity, instance>>]_vars

\* a get of a key that is not indexed has just missed in a cache that holds
\* two entries and has evicted one
C22_Witness ==
  /\ instance /\ IsGet(last.op) /\ ~last.had /\ last.val = Undefined
  /\ last.key \notin DOMAIN hash
  /\ Size = 2 /\ evictionCount = 1 /\ missCount = 1 /\ hitCount = 0

====
